---- MODULE Spec2Model ----
(***************************************************************************)
(* Model of the run tool of src/mcp-go-builder/server.py and of the HTTP   *)
(* handler of src/main.py.  The run tool: locate the       *)
(* executable of a project directory, build it if missing, start it, poll  *)
(* it under a deadline, kill the process tree, drain the pipes and compose *)
(* the report.  Time is counted in ticks of 0.1 s (the loop's sleep) and  *)
(* os.name selects the Unix or the Windows branches.  The program under    *)
(* supervision, its descendants, the directory and the outcome of every    *)
(* kill are the environment.                                               *)
(***************************************************************************)
EXTENDS Integers, Sequences, FiniteSets, TLC

\* ------------------------------------------------------------------ bounds
MaxFiles == 2          \* longest directory listing (locator)
MaxBuilt == 1          \* files a build may add to the directory
MaxLocateBuilt == 2    \* the same, in the runs of the locator
MaxRunFiles == 1       \* longest directory listing (supervised runs)
MaxDescendants == 1    \* processes the supervised program may spawn
MaxLines == 1          \* lines the supervised program may write
MaxStreamLines == 2    \* the same, in the runs that look at the streams
MaxHttpFiles == 2      \* longest project directory of the HTTP handler

\* ------------------------------------------------- program constants (ticks)
TICKS_PER_SECOND == 10
MAX_RUNTIME == 5
SELECT_TIMEOUT == 1
TICK_SLEEP == 1
WAIT_PROCS_TIMEOUT == 10
POST_KILL_SLEEP == 5
COMMUNICATE_TIMEOUT == 10

\* No executable: the empty name.
None == << >>

\* ------------------------------------------------------------ file names
\* A file name is a sequence of characters.
N_a == <<"a">>
N_ab == <<"a", ".", "b">>
N_b == <<"b">>
N_ago == <<"a", ".", "g", "o">>
N_g == <<"g">>
N_o == <<"o">>
N_aexe == <<"a", ".", "e", "x", "e">>

\* str.rfind('.'): the last index of a dot, 0 when there is none.
RFindDot(n) ==
    LET dots == {i \in 1..Len(n) : n[i] = "."}
    IN  IF dots = {} THEN 0 ELSE CHOOSE i \in dots : \A j \in dots : j <= i

\* PurePath.stem: the name without its last suffix; a leading or a trailing
\* dot starts no suffix.
Stem(n) ==
    LET i == RFindDot(n)
    IN  IF 1 < i /\ i < Len(n) THEN SubSeq(n, 1, i - 1) ELSE n

\* str.endswith(".go")
EndsWithGo(n) ==
    /\ Len(n) >= 3
    /\ SubSeq(n, Len(n) - 2, Len(n)) = <<".", "g", "o">>

\* What glob("*.exe") matches.
EndsWithExe(n) ==
    /\ Len(n) >= 4
    /\ SubSeq(n, Len(n) - 3, Len(n)) = <<".", "e", "x", "e">>

\* A directory entry: its name, whether it is a regular file, and whether
\* os.access(file, os.X_OK) holds.
Entry(n, f, x) == [name |-> n, is_file |-> f, x_ok |-> x]

FileUniverse ==
    { Entry(N_a, TRUE, TRUE), Entry(N_ab, TRUE, TRUE), Entry(N_b, TRUE, TRUE),
      Entry(N_ago, TRUE, TRUE), Entry(N_g, FALSE, TRUE), Entry(N_o, TRUE, FALSE) }

DirNames == {N_a, N_ab}

\* Sequences of at most n entries of files: what iterdir may yield.
RECURSIVE SeqsUpTo(_, _)
SeqsUpTo(files, n) ==
    IF n = 0 THEN {<< >>}
    ELSE LET shorter == SeqsUpTo(files, n - 1)
         IN  shorter \cup
             { Append(l, e) : l \in {s \in shorter : Len(s) = n - 1},
                              e \in files }

Distinct(l) == \A i, j \in 1..Len(l) : i # j => l[i].name # l[j].name

ListingsOf(files, n) == {l \in SeqsUpTo(files, n) : Distinct(l)}

\* ----------------------------------------------------------- the locator
\* The filter of the Unix branch: regular, executable, not a .go file.
IsCandidate(e) == e.is_file /\ e.x_ok /\ ~EndsWithGo(e.name)

RECURSIVE Filter(_)
Filter(l) ==
    IF l = << >> THEN << >>
    ELSE IF IsCandidate(Head(l)) THEN <<Head(l).name>> \o Filter(Tail(l))
         ELSE Filter(Tail(l))

\* The filter of the Windows branch: glob("*.exe"), regular.
IsCandidateNt(e) == EndsWithExe(e.name) /\ e.is_file

RECURSIVE FilterNt(_)
FilterNt(l) ==
    IF l = << >> THEN << >>
    ELSE IF IsCandidateNt(Head(l)) THEN <<Head(l).name>> \o FilterNt(Tail(l))
         ELSE FilterNt(Tail(l))

\* The comparison that prefers a candidate: exe.stem == dir_name.
PreferredMatch(exe, dir_name) == Stem(exe) = dir_name

\* The first candidate the for loop breaks on, None when it finds none.
FirstPreferred(exes, dir_name) ==
    LET hits == {i \in 1..Len(exes) : PreferredMatch(exes[i], dir_name)}
    IN  IF hits = {} THEN None
        ELSE exes[CHOOSE i \in hits : \A j \in hits : i <= j]

\* The selection of the first locate: [executable, ambiguous].
SelectFirst(exes, dir_name) ==
    IF Len(exes) > 1
    THEN LET p == FirstPreferred(exes, dir_name)
         IN  IF p # None THEN [executable |-> p, ambiguous |-> FALSE]
             ELSE [executable |-> exes[1], ambiguous |-> TRUE]
    ELSE IF Len(exes) = 1 THEN [executable |-> exes[1], ambiguous |-> FALSE]
    ELSE [executable |-> None, ambiguous |-> FALSE]

\* The selection after the build: the first candidate, None when none.
SelectAfterBuild(exes) == IF Len(exes) > 0 THEN exes[1] ELSE None

\* ------------------------------------------------------------- the state
VARIABLES
    project_dir,      \* base name of the resolved project directory
    dir_exists,       \* project_path.is_dir()
    timeout_seconds,  \* the caller's deadline, in seconds
    listing,          \* the directory's entries, in listing order
    artifacts,        \* the files a successful build of the project writes
    pc,               \* where run is
    executables,      \* the candidates of the last locate
    executable,       \* the selected candidate, None when none
    located,          \* what each locate selected, in order
    output_lines,     \* the report so far
    success,          \* the success flag
    ret,              \* the value of a return statement waiting for finally
    result,           \* what run returned
    exc,              \* the exception being handled
    build_calls,      \* invocations of build
    build_output,     \* the log text the last build returned
    process,          \* the Popen handle: "None" or "started"
    popen_calls,      \* calls of subprocess.Popen
    root,             \* the supervised process: none, running, exited, killed
    exit_code,        \* the code of a natural exit
    desc,             \* the descendants alive
    spawned,          \* descendants spawned so far
    clock,            \* time.time(), in ticks
    start_time,       \* start_time of run
    loop_exit,        \* why the polling loop ended
    children,         \* the descendants kill_process_tree enumerated
    kt_i,             \* the next child kill_process_tree kills
    kt_status,        \* kill_process_tree: idle, running, returned, raised
    kill_log,         \* the kill attempts made, in order
    pipe,             \* per stream, the lines written and not yet read
    pybuf,            \* per stream, the lines the text wrapper read ahead
    captured,         \* stdout_lines and stderr_lines
    emitted,          \* lines written so far
    pipes_open,       \* whether the pipe handles are open
    reaped,           \* whether the exit status of the root was collected
    second_call,      \* a second call of kill_process_tree and the result before it
    emitted_to,       \* per stream, every line written to it, in order
    os_name,          \* os.name: "posix" or "nt"
    at_exit,          \* when the root exited: was it before the deadline?
    root_wrote,       \* lines written while the root ran (stream runs only)
    cwd,              \* main.py: the working directory of the server process
    directory_path,   \* main.py: the directory of the request
    original_dir,     \* main.py: original_dir of _build_and_run
    h_files,          \* main.py: the project directory after go build
    has_go_mod,       \* main.py: os.path.exists("go.mod")
    h_pc,             \* main.py: where _build_and_run is
    go_build,         \* main.py: the go build process and its return code
    binary_proc,      \* main.py: the process of the built binary
    binary_name,      \* main.py: binary_name, None when not found
    h_ret,            \* main.py: the value of a return waiting for finally
    h_result,         \* main.py: what _build_and_run returned
    h_exc,            \* main.py: the exception leaving _build_and_run
    ran_in,           \* main.py: the directories go build and the binary ran in
    other             \* main.py: a second request, when one is in flight

locVars == <<project_dir, dir_exists, timeout_seconds, listing, artifacts, executables,
             executable, located, build_calls, build_output>>
ctlVars == <<pc, output_lines, success, ret, result, exc>>
procVars == <<process, popen_calls, root, exit_code, desc, spawned>>
timeVars == <<clock, start_time, loop_exit>>
killVars == <<children, kt_i, kt_status, kill_log>>
ioVars == <<pipe, pybuf, captured, emitted, pipes_open>>
runVars == <<locVars, ctlVars, procVars, timeVars, killVars, ioVars, reaped,
            second_call, emitted_to, os_name, at_exit, root_wrote>>
httpVars == <<cwd, directory_path, original_dir, h_files, has_go_mod, h_pc,
             go_build, binary_proc, binary_name, h_ret, h_result, h_exc>>
httpLocals == <<directory_path, original_dir, h_files, has_go_mod, h_pc,
               go_build, binary_proc, binary_name, h_ret, h_result, h_exc>>
reqVars == <<ran_in, other>>
vars == <<runVars, httpVars, reqVars>>

Streams == {"stdout", "stderr"}
Root == 1
ExitCodes == {0, 1}

Msg(kind, arg) == [kind |-> kind, arg |-> arg]
Contains(lines, m) == \E i \in 1..Len(lines) : lines[i] = m

NoReturn == [set |-> FALSE, output |-> << >>, success |-> FALSE]
Return(out, ok) == [set |-> TRUE, output |-> out, success |-> ok]

DeadlineChoices == {2, 60}

\* kill_process_tree was called once at most.
NoSecondCall == [made |-> FALSE, gone |-> FALSE, output |-> << >>, success |-> FALSE]

\* main.py: the directory the server was started in and the project's.
ServerDir == "/srv"
ProjectPath == "/w/a"
HttpDirs == {ServerDir, ProjectPath}

\* main.py: the directory of a second request.
OtherPath == "/w/b"

\* main.py: subprocess.run was not reached.
NotRun == [build |-> "", run |-> ""]
NoOther == [pc |-> "absent", original_dir |-> "", build_cwd |-> "",
            run_cwd |-> "", result |-> ""]

\* main.py: no request is being handled.
NoResponse == [set |-> FALSE, buildSuccess |-> FALSE, output |-> ""]
NoProcess == [state |-> "none", rc |-> -1]

HttpIdle ==
    /\ cwd = ServerDir
    /\ directory_path = ProjectPath
    /\ original_dir = ""
    /\ h_files = << >>
    /\ has_go_mod = FALSE
    /\ h_pc = "idle"
    /\ go_build = NoProcess
    /\ binary_proc = [state |-> "none", stderr |-> FALSE]
    /\ binary_name = None
    /\ h_ret = NoResponse
    /\ h_result = NoResponse
    /\ h_exc = ""
    /\ ran_in = NotRun
    /\ other = NoOther

RunFor(dirs, files, n, m) ==
    /\ project_dir \in dirs
    /\ dir_exists \in BOOLEAN
    /\ timeout_seconds \in DeadlineChoices
    /\ listing \in ListingsOf(files, n)
    /\ artifacts \in ListingsOf(files, m)
    /\ Distinct(listing \o artifacts)
    /\ dir_exists = FALSE => listing = << >> /\ artifacts = << >>
    /\ pc = "validate"
    /\ executables = << >>
    /\ executable = None
    /\ located = << >>
    /\ output_lines = << >>
    /\ success = FALSE
    /\ ret = NoReturn
    /\ result = NoReturn
    /\ exc = ""
    /\ build_calls = 0
    /\ build_output = ""
    /\ process = "None"
    /\ popen_calls = 0
    /\ root = "none"
    /\ exit_code = -1
    /\ desc = {}
    /\ spawned = 0
    /\ clock = 0
    /\ start_time = 0
    /\ loop_exit = ""
    /\ children = << >>
    /\ kt_i = 1
    /\ kt_status = "idle"
    /\ kill_log = << >>
    /\ pipe = [s \in Streams |-> << >>]
    /\ pybuf = [s \in Streams |-> << >>]
    /\ captured = [s \in Streams |-> << >>]
    /\ emitted = 0
    /\ pipes_open = FALSE
    /\ reaped = FALSE
    /\ second_call = NoSecondCall
    /\ emitted_to = [s \in Streams |-> << >>]
    /\ at_exit = [in_time |-> FALSE]
    /\ root_wrote = 0

InitFor(dirs, files, n, m) == HttpIdle /\ RunFor(dirs, files, n, m)

\* if os.name == "nt": ... else: ... of both locates.
Candidates(l) == IF os_name = "nt" THEN FilterNt(l) ELSE Filter(l)

\* ------------------------------------------------------------ exceptions
\* Variant: the handler names subprocess.SubprocessError only.
Caught_SubprocessErrorOnly(kind) == kind = "SubprocessError"

\* The outer handler of run: except Exception.
Caught(kind) == kind \in {"OSError", "UnicodeDecodeError"}

\* A raise inside the try block of run: to the handler when it catches the
\* exception, else through finally and out of run.
Raise(kind) ==
    /\ exc' = kind
    /\ pc' = IF Caught(kind) THEN "except" ELSE "finally"

\* -------------------------------------------------------------- locating
ValidateDir ==
    /\ pc = "validate"
    /\ IF dir_exists
       THEN /\ pc' = "locate"
            /\ UNCHANGED result
       ELSE /\ pc' = "done"
            /\ result' = Return(<<Msg("Error: Directory does not exist", << >>)>>, FALSE)
    /\ UNCHANGED <<locVars, output_lines, success, ret, exc>>
    /\ UNCHANGED <<procVars, timeVars, killVars, ioVars>>
    /\ UNCHANGED reaped
    /\ UNCHANGED second_call
    /\ UNCHANGED emitted_to
    /\ UNCHANGED os_name
    /\ UNCHANGED at_exit
    /\ UNCHANGED root_wrote
    /\ UNCHANGED httpVars
    /\ UNCHANGED reqVars

LocateFirst ==
    /\ pc = "locate"
    /\ LET exes == Candidates(listing)
           sel == SelectFirst(exes, project_dir)
       IN  /\ executables' = exes
           /\ executable' = sel.executable
           /\ located' = Append(located, sel.executable)
           /\ output_lines' =
                 IF sel.ambiguous
                 THEN Append(output_lines,
                             Msg("Multiple executables found. Using", sel.executable))
                 ELSE output_lines
           /\ pc' = "build"
    /\ UNCHANGED <<project_dir, dir_exists, timeout_seconds, listing, artifacts,
                   build_calls, build_output, success, ret, result, exc>>
    /\ UNCHANGED <<procVars, timeVars, killVars, ioVars>>
    /\ UNCHANGED reaped
    /\ UNCHANGED second_call
    /\ UNCHANGED emitted_to
    /\ UNCHANGED os_name
    /\ UNCHANGED at_exit
    /\ UNCHANGED root_wrote
    /\ UNCHANGED httpVars
    /\ UNCHANGED reqVars

\* iterdir raises (the directory cannot be read).
LocateRaises ==
    /\ pc = "locate"
    /\ Raise("OSError")
    /\ UNCHANGED <<locVars, output_lines, success, ret, result>>
    /\ UNCHANGED <<procVars, timeVars, killVars, ioVars>>
    /\ UNCHANGED reaped
    /\ UNCHANGED second_call
    /\ UNCHANGED emitted_to
    /\ UNCHANGED os_name
    /\ UNCHANGED at_exit
    /\ UNCHANGED root_wrote
    /\ UNCHANGED httpVars
    /\ UNCHANGED reqVars

\* What build returns for each way the toolchain can end.
BuildOutcomes == {"no_go_files", "ok", "compile_error", "exception"}

BuildResult(outcome) ==
    CASE outcome = "no_go_files" ->
             [log |-> "Error: No Go source files found", success |-> FALSE]
      [] outcome = "ok" ->
             [log |-> "Build successful", success |-> TRUE]
      [] outcome = "compile_error" ->
             [log |-> "Build failed: compile error", success |-> FALSE]
      [] outcome = "exception" ->
             [log |-> "Unexpected error during build process", success |-> FALSE]

\* The directory after a build that ran the compiler to the end: the old
\* entries and what it wrote.
PostBuildListing(l, written) == l \o written

\* Variant: build is called whatever the first locate found.
NeedsBuild_Always(exe) == TRUE

\* Whether run calls build at this point.
NeedsBuild(exe) == exe = None

BuildIfMissing ==
    /\ pc = "build"
    /\ IF NeedsBuild(executable)
       THEN \E outcome \in BuildOutcomes :
              LET b == BuildResult(outcome)
                  out == output_lines \o
                         <<Msg("No executable found. Attempting to build first...", << >>),
                           Msg("build_output", <<b.log>>)>>
              IN  /\ build_calls' = build_calls + 1
                  /\ build_output' = b.log
                  /\ output_lines' = out
                  /\ listing' = IF outcome = "ok"
                                 THEN PostBuildListing(listing, artifacts)
                                 ELSE listing
                  /\ IF b.success
                     THEN /\ pc' = "relocate"
                          /\ UNCHANGED ret
                     ELSE /\ pc' = "finally"
                          /\ ret' = Return(out, FALSE)
       ELSE /\ pc' = "popen"
            /\ UNCHANGED <<build_calls, build_output, output_lines, listing, ret>>
    /\ UNCHANGED <<project_dir, dir_exists, timeout_seconds, artifacts, executables,
                   executable, located, success, result, exc>>
    /\ UNCHANGED <<procVars, timeVars, killVars, ioVars>>
    /\ UNCHANGED reaped
    /\ UNCHANGED second_call
    /\ UNCHANGED emitted_to
    /\ UNCHANGED os_name
    /\ UNCHANGED at_exit
    /\ UNCHANGED root_wrote
    /\ UNCHANGED httpVars
    /\ UNCHANGED reqVars

\* Variant: the else branch is missing and run goes on to start the command.
GivesUp_Never(exe) == FALSE

\* Whether run gives up after the second locate: the else of if executables.
GivesUp(exe) == exe = None

Relocate ==
    /\ pc = "relocate"
    /\ LET exes == Candidates(listing)
           exe == SelectAfterBuild(exes)
       IN  /\ executables' = exes
           /\ executable' = exe
           /\ located' = Append(located, exe)
           /\ IF GivesUp(exe)
              THEN /\ pc' = "finally"
                   /\ ret' = Return(<<Msg("Error: Unable to find or build an executable",
                                          << >>)>>, FALSE)
              ELSE /\ pc' = "popen"
                   /\ UNCHANGED ret
    /\ UNCHANGED <<project_dir, dir_exists, timeout_seconds, listing, artifacts,
                   build_calls, build_output, output_lines, success, result, exc>>
    /\ UNCHANGED <<procVars, timeVars, killVars, ioVars>>
    /\ UNCHANGED reaped
    /\ UNCHANGED second_call
    /\ UNCHANGED emitted_to
    /\ UNCHANGED os_name
    /\ UNCHANGED at_exit
    /\ UNCHANGED root_wrote
    /\ UNCHANGED httpVars
    /\ UNCHANGED reqVars

\* -------------------------------------------------------------- starting
\* subprocess.Popen starts the program: the handle exists from here on.
PopenStarts ==
    /\ pc = "popen"
    /\ output_lines' = Append(output_lines, Msg("Running", executable))
    /\ popen_calls' = popen_calls + 1
    /\ process' = "started"
    /\ root' = "running"
    /\ pipes_open' = TRUE
    /\ start_time' = clock
    /\ pc' = "loop"
    /\ UNCHANGED <<locVars, success, ret, result, exc, exit_code, desc, spawned,
                   clock, loop_exit, killVars, pipe, pybuf, captured, emitted>>
    /\ UNCHANGED reaped
    /\ UNCHANGED second_call
    /\ UNCHANGED emitted_to
    /\ UNCHANGED os_name
    /\ UNCHANGED at_exit
    /\ UNCHANGED root_wrote
    /\ UNCHANGED httpVars
    /\ UNCHANGED reqVars

\* subprocess.Popen raises (permissions, missing file): no handle is bound.
PopenRaises ==
    /\ pc = "popen"
    /\ output_lines' = Append(output_lines, Msg("Running", executable))
    /\ popen_calls' = popen_calls + 1
    /\ Raise("OSError")
    /\ UNCHANGED <<locVars, success, ret, result, process, root, exit_code, desc,
                   spawned, timeVars, killVars, ioVars>>
    /\ UNCHANGED reaped
    /\ UNCHANGED second_call
    /\ UNCHANGED emitted_to
    /\ UNCHANGED os_name
    /\ UNCHANGED at_exit
    /\ UNCHANGED root_wrote
    /\ UNCHANGED httpVars
    /\ UNCHANGED reqVars

\* ------------------------------------------------------- the environment
Supervising == process = "started" /\ pc # "done"

\* The processes that hold the write ends of the pipes.
Writers == (IF root = "running" THEN {Root} ELSE {}) \cup desc

ProcExit ==
    /\ Supervising
    /\ root = "running"
    /\ \E c \in ExitCodes : exit_code' = c
    /\ root' = "exited"
    /\ at_exit' = [in_time |-> clock - start_time < MAX_RUNTIME * TICKS_PER_SECOND]
    /\ UNCHANGED <<locVars, ctlVars, process, popen_calls, desc, spawned,
                   timeVars, killVars, ioVars>>
    /\ UNCHANGED reaped
    /\ UNCHANGED second_call
    /\ UNCHANGED emitted_to
    /\ UNCHANGED os_name
    /\ UNCHANGED root_wrote
    /\ UNCHANGED httpVars
    /\ UNCHANGED reqVars

Spawn ==
    /\ Supervising
    /\ Writers # {}
    /\ spawned < MaxDescendants
    /\ spawned' = spawned + 1
    /\ desc' = desc \cup {Root + spawned + 1}
    /\ UNCHANGED <<locVars, ctlVars, process, popen_calls, root, exit_code,
                   timeVars, killVars, ioVars>>
    /\ UNCHANGED reaped
    /\ UNCHANGED second_call
    /\ UNCHANGED emitted_to
    /\ UNCHANGED os_name
    /\ UNCHANGED at_exit
    /\ UNCHANGED root_wrote
    /\ UNCHANGED httpVars
    /\ UNCHANGED reqVars

DescExit ==
    /\ Supervising
    /\ \E p \in desc : desc' = desc \ {p}
    /\ UNCHANGED <<locVars, ctlVars, process, popen_calls, root, exit_code,
                   spawned, timeVars, killVars, ioVars>>
    /\ UNCHANGED reaped
    /\ UNCHANGED second_call
    /\ UNCHANGED emitted_to
    /\ UNCHANGED os_name
    /\ UNCHANGED at_exit
    /\ UNCHANGED root_wrote
    /\ UNCHANGED httpVars
    /\ UNCHANGED reqVars

\* How a write can end: with the newline (TRUE) or without it (FALSE).  A
\* non-blocking readline of the Unix branch hands out what there is, so there
\* a text without its newline is read like a line and is written as one.
Endings == IF os_name = "nt" THEN {TRUE, FALSE} ELSE {TRUE}

\* Line k written whole is k; written without its newline it is -k.
IsWhole(x) == x > 0

\* A process that holds a write end writes its next line to one stream,
\* as long as fewer than n lines were written.  A text without its newline
\* is the last thing the program writes.
EmitUpTo(n) ==
    /\ Supervising
    /\ Writers # {}
    /\ emitted < n
    /\ \E s \in Streams, whole \in Endings :
         LET item == IF whole THEN emitted + 1 ELSE 0 - (emitted + 1)
         IN  /\ pipe' = [pipe EXCEPT ![s] = Append(@, item)]
             /\ emitted_to' = [emitted_to EXCEPT ![s] = Append(@, item)]
             /\ emitted' = IF whole THEN emitted + 1 ELSE n
    /\ UNCHANGED <<locVars, ctlVars, procVars, timeVars, killVars, pybuf,
                   captured, pipes_open>>
    /\ UNCHANGED <<reaped, second_call, os_name, at_exit>>
    /\ UNCHANGED httpVars
    /\ UNCHANGED reqVars

Emit ==
    /\ EmitUpTo(MaxLines)
    /\ UNCHANGED root_wrote

\* The same, keeping count of the lines written while the root ran.
EmitStream ==
    /\ EmitUpTo(MaxStreamLines)
    /\ root_wrote' = IF root = "running" THEN emitted' ELSE root_wrote
    /\ UNCHANGED reaped
    /\ UNCHANGED second_call

\* ----------------------------------------------------- the polling loop
Ticks(seconds) == seconds * TICKS_PER_SECOND

\* Variant: the deadline test reads the caller's timeout_seconds.
DeadlineExceeded_CallerTimeout(elapsed) == elapsed > Ticks(timeout_seconds)

\* The deadline test of the loop: elapsed > MAX_RUNTIME.
DeadlineExceeded(elapsed) == elapsed > Ticks(MAX_RUNTIME)

\* process.poll() is None
PollIsNone == root = "running"

\* process.poll() calls waitpid: it collects the status of a root that ended.
ReapedAfterPoll == reaped \/ root # "running"

LoopCheck ==
    /\ pc = "loop"
    /\ IF DeadlineExceeded(clock - start_time)
       THEN /\ output_lines' = Append(output_lines,
                                      Msg("Reached maximum runtime, terminating...", << >>))
            /\ loop_exit' = "deadline"
            /\ pc' = "terminate"
            /\ UNCHANGED success
       ELSE IF ~PollIsNone
       THEN /\ output_lines' = Append(output_lines,
                                      Msg("Process exited with code", <<ToString(exit_code)>>))
            /\ success' = (exit_code = 0)
            /\ loop_exit' = "exit"
            /\ pc' = "terminate"
       ELSE /\ pc' = "read"
            /\ UNCHANGED <<output_lines, success, loop_exit>>
    /\ reaped' = IF DeadlineExceeded(clock - start_time) THEN reaped
                 ELSE ReapedAfterPoll
    /\ UNCHANGED <<locVars, ret, result, exc, procVars, clock, start_time,
                   killVars, ioVars>>
    /\ UNCHANGED second_call
    /\ UNCHANGED emitted_to
    /\ UNCHANGED os_name
    /\ UNCHANGED at_exit
    /\ UNCHANGED root_wrote
    /\ UNCHANGED httpVars
    /\ UNCHANGED reqVars

\* select: a stream is readable when it has data or is at end of file.
Readable(s) == pipe[s] # << >> \/ Writers = {}

\* readline on the text wrapper: a line it read ahead, else it reads all the
\* pipe holds and returns the first line; "" (here << >>) at end of file.
ReadlineLine(s) ==
    IF pybuf[s] # << >> THEN <<Head(pybuf[s])>>
    ELSE IF pipe[s] # << >> THEN <<Head(pipe[s])>>
    ELSE << >>
ReadlineBuf(s) ==
    IF pybuf[s] # << >> THEN Tail(pybuf[s])
    ELSE IF pipe[s] # << >> THEN Tail(pipe[s])
    ELSE << >>
ReadlinePipe(s) == IF pybuf[s] # << >> THEN pipe[s] ELSE << >>

\* One pass of the loop body: select, one readline per ready stream, sleep.
LoopRead ==
    /\ pc = "read"
    /\ os_name # "nt"
    /\ LET rlist == {s \in Streams : Readable(s)}
           waited == IF rlist = {} THEN SELECT_TIMEOUT ELSE 0
       IN  /\ captured' = [s \in Streams |->
                             IF s \in rlist THEN captured[s] \o ReadlineLine(s)
                             ELSE captured[s]]
           /\ pybuf' = [s \in Streams |->
                             IF s \in rlist THEN ReadlineBuf(s) ELSE pybuf[s]]
           /\ pipe' = [s \in Streams |->
                             IF s \in rlist THEN ReadlinePipe(s) ELSE pipe[s]]
           /\ clock' = clock + waited + TICK_SLEEP
    /\ pc' = "loop"
    /\ UNCHANGED <<locVars, output_lines, success, ret, result, exc, procVars,
                   start_time, loop_exit, killVars, emitted, pipes_open>>
    /\ UNCHANGED reaped
    /\ UNCHANGED second_call
    /\ UNCHANGED emitted_to
    /\ UNCHANGED os_name
    /\ UNCHANGED at_exit
    /\ UNCHANGED root_wrote
    /\ UNCHANGED httpVars
    /\ UNCHANGED reqVars

\* readline raises on bytes it cannot decode.
LoopReadRaises ==
    /\ pc = "read"
    /\ os_name # "nt"
    /\ \E s \in Streams : pipe[s] # << >>
    /\ Raise("UnicodeDecodeError")
    /\ UNCHANGED <<locVars, output_lines, success, ret, result, procVars,
                   timeVars, killVars, ioVars>>
    /\ UNCHANGED reaped
    /\ UNCHANGED second_call
    /\ UNCHANGED emitted_to
    /\ UNCHANGED os_name
    /\ UNCHANGED at_exit
    /\ UNCHANGED root_wrote
    /\ UNCHANGED httpVars
    /\ UNCHANGED reqVars

\* PeekNamedPipe: whether bytes wait in the pipe (avail > 0).
Avail(s) == pipe[s] # << >>

\* The pipes of the Windows branch are blocking: readline returns at a
\* newline or at end of file.  With no whole line at hand it waits for as
\* long as a process holds the write end.
WouldBlock(s) ==
    /\ Avail(s)
    /\ ~(pybuf[s] # << >> /\ IsWhole(Head(pybuf[s])))
    /\ ~IsWhole(Head(pipe[s]))
    /\ Writers # {}

\* read_nonblocking(stream) of the Windows branch, with PeekNamedPipe at
\* hand: readline when bytes wait in the pipe, "" else; then on to next_pc
\* after pause ticks.
ReadNonblockingNt(s, next_pc, pause) ==
    /\ os_name = "nt"
    /\ IF Avail(s)
       THEN /\ ~WouldBlock(s)
            /\ captured' = [captured EXCEPT ![s] = @ \o ReadlineLine(s)]
            /\ pybuf' = [pybuf EXCEPT ![s] = ReadlineBuf(s)]
            /\ pipe' = [pipe EXCEPT ![s] = ReadlinePipe(s)]
       ELSE UNCHANGED <<captured, pybuf, pipe>>
    /\ clock' = clock + pause
    /\ pc' = next_pc
    /\ UNCHANGED <<locVars, output_lines, success, ret, result, exc, procVars,
                   start_time, loop_exit, killVars, emitted, pipes_open>>
    /\ UNCHANGED <<reaped, second_call, emitted_to, os_name, at_exit, root_wrote>>
    /\ UNCHANGED httpVars
    /\ UNCHANGED reqVars

\* stdout_line = read_nonblocking(process.stdout)
LoopReadNtStdout ==
    /\ pc = "read"
    /\ ReadNonblockingNt("stdout", "read_err", 0)

\* stderr_line = read_nonblocking(process.stderr), then the sleep.
LoopReadNtStderr ==
    /\ pc = "read_err"
    /\ ReadNonblockingNt("stderr", "loop", TICK_SLEEP)

\* ------------------------------------------------------ forced termination
\* The descendants in spawn order: what children(recursive=True) returns.
RECURSIVE SeqOf(_)
SeqOf(S) ==
    IF S = {} THEN << >>
    ELSE LET m == CHOOSE x \in S : \A y \in S : x <= y
         IN  <<m>> \o SeqOf(S \ {m})

Range(q) == {q[i] : i \in 1..Len(q)}

\* A kill that succeeds ends its target; one that fails leaves it as it was.
RootAfterKill(ok) == IF ok /\ root = "running" THEN "killed" ELSE root

\* Variant: the fallback os.kill stands outside any try.
KtHandler_FallbackUnguarded(site) ==
    CASE site = "enumerate" -> "fallback"
      [] site = "child" -> "pass"
      [] site = "parent" -> "fallback"
      [] site = "force" -> "pass"
      [] site = "fallback" -> "propagate"

\* The handler around each step of kill_process_tree that can raise: "pass"
\* (a bare except around the step), "fallback" (the except Exception of the
\* function), "propagate" (none: the exception leaves the function).
KtHandler(site) ==
    CASE site = "enumerate" -> "fallback"
      [] site = "child" -> "pass"
      [] site = "parent" -> "fallback"
      [] site = "force" -> "pass"
      [] site = "fallback" -> "pass"

\* Where kill_process_tree goes on after a step at site failed.
KtPcAfterFailure(site, next_pc) ==
    CASE KtHandler(site) = "pass" -> next_pc
      [] KtHandler(site) = "fallback" -> "kt_fallback"
      [] KtHandler(site) = "propagate" -> "post_kill"

KtStatusAfterFailure(site, status) ==
    IF KtHandler(site) = "propagate" THEN "raised" ELSE status

Terminate ==
    /\ pc = "terminate"
    /\ IF PollIsNone
       THEN /\ output_lines' = Append(output_lines,
                                      Msg("Forcibly terminating process...", << >>))
            /\ kt_status' = "running"
            /\ pc' = "kt_enum"
       ELSE /\ pc' = "drain"
            /\ UNCHANGED <<output_lines, kt_status>>
    /\ reaped' = ReapedAfterPoll
    /\ UNCHANGED <<locVars, success, ret, result, exc, procVars, timeVars,
                   children, kt_i, kill_log, ioVars>>
    /\ UNCHANGED second_call
    /\ UNCHANGED emitted_to
    /\ UNCHANGED os_name
    /\ UNCHANGED at_exit
    /\ UNCHANGED root_wrote
    /\ UNCHANGED httpVars
    /\ UNCHANGED reqVars

\* psutil.Process(pid) raises NoSuchProcess for a pid whose status was
\* collected (the process is gone from the table); else it may succeed or fail.
EnumerateOutcomes == IF reaped THEN {FALSE} ELSE BOOLEAN

\* psutil.Process(pid) and parent.children(recursive=True): a snapshot; an
\* exception here goes to the handler of kill_process_tree.
KtEnumerate ==
    /\ pc = "kt_enum"
    /\ \E ok \in EnumerateOutcomes :
         IF ok
         THEN /\ children' = IF root = "running" THEN SeqOf(desc) ELSE << >>
              /\ kt_i' = 1
              /\ pc' = "kt_children"
              /\ UNCHANGED kt_status
         ELSE /\ pc' = KtPcAfterFailure("enumerate", "kt_children")
              /\ kt_status' = KtStatusAfterFailure("enumerate", kt_status)
              /\ UNCHANGED <<children, kt_i>>
    /\ UNCHANGED <<locVars, output_lines, success, ret, result, exc, procVars,
                   timeVars, kill_log, ioVars>>
    /\ UNCHANGED reaped
    /\ UNCHANGED second_call
    /\ UNCHANGED emitted_to
    /\ UNCHANGED os_name
    /\ UNCHANGED at_exit
    /\ UNCHANGED root_wrote
    /\ UNCHANGED httpVars
    /\ UNCHANGED reqVars

\* child.kill() inside try/except: a failure is passed over.
KtKillChild ==
    /\ pc = "kt_children"
    /\ kt_i <= Len(children)
    /\ \E ok \in BOOLEAN :
         IF ok
         THEN /\ desc' = desc \ {children[kt_i]}
              /\ UNCHANGED <<pc, kt_status>>
         ELSE /\ pc' = KtPcAfterFailure("child", pc)
              /\ kt_status' = KtStatusAfterFailure("child", kt_status)
              /\ UNCHANGED desc
    /\ kill_log' = Append(kill_log, children[kt_i])
    /\ kt_i' = kt_i + 1
    /\ UNCHANGED <<locVars, output_lines, success, ret, result, exc, process,
                   popen_calls, root, exit_code, spawned, timeVars, children, ioVars>>
    /\ UNCHANGED reaped
    /\ UNCHANGED second_call
    /\ UNCHANGED emitted_to
    /\ UNCHANGED os_name
    /\ UNCHANGED at_exit
    /\ UNCHANGED root_wrote
    /\ UNCHANGED httpVars
    /\ UNCHANGED reqVars

\* parent.kill(): a failure goes to the handler of kill_process_tree.
KtKillParent ==
    /\ pc = "kt_children"
    /\ kt_i > Len(children)
    /\ kill_log' = Append(kill_log, Root)
    /\ \E ok \in BOOLEAN :
         /\ root' = RootAfterKill(ok)
         /\ pc' = IF ok THEN "kt_wait" ELSE KtPcAfterFailure("parent", "kt_wait")
         /\ kt_status' = IF ok THEN kt_status
                          ELSE KtStatusAfterFailure("parent", kt_status)
    /\ UNCHANGED <<locVars, output_lines, success, ret, result, exc, process,
                   popen_calls, exit_code, desc, spawned, timeVars, children,
                   kt_i, ioVars>>
    /\ UNCHANGED reaped
    /\ UNCHANGED second_call
    /\ UNCHANGED emitted_to
    /\ UNCHANGED os_name
    /\ UNCHANGED at_exit
    /\ UNCHANGED root_wrote
    /\ UNCHANGED httpVars
    /\ UNCHANGED reqVars

\* The processes wait_procs reports still alive after its timeout.
StillAlive == (Range(children) \cap desc) \cup (IF root = "running" THEN {Root} ELSE {})

\* psutil.wait_procs(children + [parent], timeout=1), then p.kill() for each
\* process still alive, each inside try/except.
KtWaitAndForceKill ==
    /\ pc = "kt_wait"
    /\ LET still == StillAlive
       IN  /\ clock' = clock + (IF still = {} THEN 0 ELSE WAIT_PROCS_TIMEOUT)
           /\ kill_log' = kill_log \o SeqOf(still)
           /\ \E failed \in SUBSET still :
                /\ desc' = desc \ (still \ failed)
                /\ root' = RootAfterKill(Root \in still \ failed)
                /\ pc' = IF failed = {} THEN "post_kill"
                          ELSE KtPcAfterFailure("force", "post_kill")
                /\ kt_status' = IF failed = {} THEN "returned"
                                 ELSE KtStatusAfterFailure("force", "returned")
    /\ reaped' = (reaped \/ root # "running")
    /\ UNCHANGED <<locVars, output_lines, success, ret, result, exc, process,
                   popen_calls, exit_code, spawned, start_time, loop_exit,
                   children, kt_i, ioVars>>
    /\ UNCHANGED second_call
    /\ UNCHANGED emitted_to
    /\ UNCHANGED os_name
    /\ UNCHANGED at_exit
    /\ UNCHANGED root_wrote
    /\ UNCHANGED httpVars
    /\ UNCHANGED reqVars

\* except Exception of kill_process_tree: report, then os.kill(pid, SIGKILL).
KtFallback ==
    /\ pc = "kt_fallback"
    /\ output_lines' = Append(output_lines, Msg("Error killing process tree", << >>))
    /\ kill_log' = Append(kill_log, Root)
    /\ \E ok \in BOOLEAN :
         /\ root' = RootAfterKill(ok)
         /\ kt_status' = IF ok THEN "returned"
                          ELSE KtStatusAfterFailure("fallback", "returned")
    /\ pc' = "post_kill"
    /\ UNCHANGED <<locVars, success, ret, result, exc, process, popen_calls,
                   exit_code, desc, spawned, timeVars, children, kt_i, ioVars>>
    /\ UNCHANGED reaped
    /\ UNCHANGED second_call
    /\ UNCHANGED emitted_to
    /\ UNCHANGED os_name
    /\ UNCHANGED at_exit
    /\ UNCHANGED root_wrote
    /\ UNCHANGED httpVars
    /\ UNCHANGED reqVars

\* Back in run: the handler around kill_process_tree (process.kill() when it
\* raised), sleep 0.5, and the warning when poll() is still None.
PostKill ==
    /\ pc = "post_kill"
    /\ \E ok \in BOOLEAN :
         LET r == IF kt_status = "raised" THEN RootAfterKill(ok) ELSE root
         IN  /\ root' = r
             /\ kill_log' = IF kt_status = "raised" THEN Append(kill_log, Root)
                            ELSE kill_log
             /\ output_lines' =
                   IF r = "running"
                   THEN Append(output_lines,
                               Msg("Warning: Process may still be running!", << >>))
                   ELSE output_lines
             /\ reaped' = (reaped \/ r # "running")
    /\ clock' = clock + POST_KILL_SLEEP
    /\ pc' = "drain"
    /\ UNCHANGED <<locVars, success, ret, result, exc, process, popen_calls,
                   exit_code, desc, spawned, start_time, loop_exit, children,
                   kt_i, kt_status, ioVars>>
    /\ UNCHANGED second_call
    /\ UNCHANGED emitted_to
    /\ UNCHANGED os_name
    /\ UNCHANGED at_exit
    /\ UNCHANGED root_wrote
    /\ UNCHANGED httpVars
    /\ UNCHANGED reqVars

\* kill_process_tree(process.pid) called once more, after the first call
\* returned and with the process dead: the same steps run again.
KtCallAgain ==
    /\ pc = "post_kill"
    /\ kt_status = "returned"
    /\ ~second_call.made
    /\ root # "running"
    /\ second_call' = [made |-> TRUE, gone |-> reaped, output |-> output_lines,
                       success |-> success]
    /\ kt_status' = "running"
    /\ pc' = "kt_enum"
    /\ UNCHANGED <<locVars, output_lines, success, ret, result, exc, procVars,
                   timeVars, children, kt_i, kill_log, ioVars, reaped>>
    /\ UNCHANGED emitted_to
    /\ UNCHANGED os_name
    /\ UNCHANGED at_exit
    /\ UNCHANGED root_wrote
    /\ UNCHANGED httpVars
    /\ UNCHANGED reqVars

\* ------------------------------------------------- final drain and report
\* process.communicate(timeout=1) ends at once when the process is dead and
\* both pipes are at end of file; else it raises TimeoutExpired.
CommunicateEnds == root # "running" /\ Writers = {}

\* Variant: what communicate returns is put in front of the lines read so far.
Extend_InFront(lines, more) == more \o lines

\* stdout_lines.extend(stdout.splitlines())
Extend(lines, more) == lines \o more

\* What communicate reads of a stream: on Unix the pipe itself (os.read on
\* the descriptor), on Windows the file object, with what it had read ahead.
Remaining(s) == IF os_name = "nt" THEN pybuf[s] \o pipe[s] ELSE pipe[s]

\* Collect any remaining output: communicate reads the pipes themselves and
\* closes them; its timeout is passed over.
Drain ==
    /\ pc = "drain"
    /\ IF CommunicateEnds
       THEN /\ captured' = [s \in Streams |-> Extend(captured[s], Remaining(s))]
            /\ pipe' = [s \in Streams |-> << >>]
            /\ pybuf' = [s \in Streams |-> IF os_name = "nt" THEN << >> ELSE pybuf[s]]
            /\ pipes_open' = FALSE
            /\ reaped' = TRUE
            /\ UNCHANGED clock
       ELSE /\ clock' = clock + COMMUNICATE_TIMEOUT
            /\ UNCHANGED <<captured, pipe, pybuf, pipes_open, reaped>>
    /\ pc' = "compose"
    /\ UNCHANGED <<locVars, output_lines, success, ret, result, exc, procVars,
                   start_time, loop_exit, killVars, emitted>>
    /\ UNCHANGED second_call
    /\ UNCHANGED emitted_to
    /\ UNCHANGED os_name
    /\ UNCHANGED at_exit
    /\ UNCHANGED root_wrote
    /\ UNCHANGED httpVars
    /\ UNCHANGED reqVars

StreamReport(title, lines) ==
    IF lines # << >>
    THEN <<Msg(title, << >>)>> \o [i \in 1..Len(lines) |-> Msg("line", <<ToString(lines[i])>>)]
    ELSE << >>

\* Variant: the flag is left as the loop set it.
SuccessOverride_Keep(ok) == ok

\* if success is False: success = True
SuccessOverride(ok) == IF ok = FALSE THEN TRUE ELSE ok

Compose ==
    /\ pc = "compose"
    /\ output_lines' =
          output_lines
          \o StreamReport("Standard Output:", captured["stdout"])
          \o StreamReport("Standard Error:", captured["stderr"])
          \o (IF success = FALSE
              THEN <<Msg("Process ran and was terminated after 5 seconds as planned",
                         << >>)>>
              ELSE << >>)
    /\ success' = SuccessOverride(success)
    /\ pc' = "finally"
    /\ UNCHANGED <<locVars, ret, result, exc, procVars, timeVars, killVars, ioVars>>
    /\ UNCHANGED reaped
    /\ UNCHANGED second_call
    /\ UNCHANGED emitted_to
    /\ UNCHANGED os_name
    /\ UNCHANGED at_exit
    /\ UNCHANGED root_wrote
    /\ UNCHANGED httpVars
    /\ UNCHANGED reqVars

\* except Exception as e
Except ==
    /\ pc = "except"
    /\ output_lines' = Append(output_lines,
                              Msg("Unexpected error during execution", <<exc>>))
    /\ success' = FALSE
    /\ pc' = "finally"
    /\ UNCHANGED <<locVars, ret, result, exc, procVars, timeVars, killVars, ioVars>>
    /\ UNCHANGED reaped
    /\ UNCHANGED second_call
    /\ UNCHANGED emitted_to
    /\ UNCHANGED os_name
    /\ UNCHANGED at_exit
    /\ UNCHANGED root_wrote
    /\ UNCHANGED httpVars
    /\ UNCHANGED reqVars

\* Whether finally makes its last kill attempt: if process and
\* process.poll() is None.
FinalKillNeeded == process # "None" /\ PollIsNone

\* finally, then the return: the value of the return statement that was
\* waiting, else the joined report and the flag; an exception the handler did
\* not catch leaves run.
Finally ==
    /\ pc = "finally"
    /\ IF FinalKillNeeded
       THEN /\ kill_log' = Append(kill_log, Root)
            /\ \E ok \in BOOLEAN : root' = RootAfterKill(ok)
       ELSE UNCHANGED <<kill_log, root>>
    /\ reaped' = IF process # "None" THEN ReapedAfterPoll ELSE reaped
    /\ result' = IF exc # "" /\ ~Caught(exc) THEN NoReturn
                 ELSE IF ret.set THEN ret
                 ELSE Return(output_lines, success)
    /\ pc' = "done"
    /\ UNCHANGED <<locVars, output_lines, success, ret, exc, process, popen_calls,
                   exit_code, desc, spawned, timeVars, children, kt_i, kt_status,
                   ioVars>>
    /\ UNCHANGED second_call
    /\ UNCHANGED emitted_to
    /\ UNCHANGED os_name
    /\ UNCHANGED at_exit
    /\ UNCHANGED root_wrote
    /\ UNCHANGED httpVars
    /\ UNCHANGED reqVars

\* ------------------------------------------------------ the specification
\* Supervised runs: the directory a, holding the binary a, a file that is
\* not executable, or nothing.
RunFiles == {Entry(N_a, TRUE, TRUE), Entry(N_o, TRUE, FALSE)}

Init == InitFor({N_a}, RunFiles, MaxRunFiles, MaxBuilt) /\ os_name = "posix"

Next ==
    \/ ValidateDir
    \/ LocateFirst
    \/ LocateRaises
    \/ BuildIfMissing
    \/ Relocate
    \/ PopenStarts
    \/ PopenRaises
    \/ ProcExit
    \/ Spawn
    \/ DescExit
    \/ Emit
    \/ LoopCheck
    \/ LoopRead
    \/ LoopReadRaises
    \/ Terminate
    \/ KtEnumerate
    \/ KtKillChild
    \/ KtKillParent
    \/ KtWaitAndForceKill
    \/ KtFallback
    \/ PostKill
    \/ Drain
    \/ Compose
    \/ Except
    \/ Finally

Spec == Init /\ [][Next]_vars

\* Runs in which the termination step is called a second time.
NextTwice == Next \/ KtCallAgain

SpecTwice == Init /\ [][NextTwice]_vars

\* Runs of the binary a found at the first locate, writing more lines.
InitStreams ==
    /\ InitFor({N_a}, {Entry(N_a, TRUE, TRUE)}, MaxRunFiles, MaxBuilt)
    /\ dir_exists
    /\ Filter(listing) # << >>
    /\ artifacts = << >>
    /\ timeout_seconds > MAX_RUNTIME
    /\ os_name = "posix"

NextStreams ==
    \/ ValidateDir
    \/ LocateFirst
    \/ BuildIfMissing
    \/ PopenStarts
    \/ ProcExit
    \/ Spawn
    \/ DescExit
    \/ EmitStream
    \/ LoopCheck
    \/ LoopRead
    \/ LoopReadRaises
    \/ Terminate
    \/ KtEnumerate
    \/ KtKillChild
    \/ KtKillParent
    \/ KtWaitAndForceKill
    \/ KtFallback
    \/ PostKill
    \/ Drain
    \/ Compose
    \/ Except
    \/ Finally

SpecStreams == InitStreams /\ [][NextStreams]_vars

\* Runs on Windows of the binary a.exe found by the first locate.  The steps
\* of run, one after the other, and the steps of the environment.
InitNt ==
    /\ os_name = "nt"
    /\ InitFor({N_a}, {Entry(N_aexe, TRUE, FALSE)}, MaxRunFiles, MaxBuilt)
    /\ dir_exists
    /\ Candidates(listing) # << >>
    /\ artifacts = << >>
    /\ timeout_seconds > MAX_RUNTIME

RunStepNt ==
    \/ ValidateDir
    \/ LocateFirst
    \/ BuildIfMissing
    \/ PopenStarts
    \/ PopenRaises
    \/ LoopCheck
    \/ LoopReadNtStdout
    \/ LoopReadNtStderr
    \/ Terminate
    \/ KtEnumerate
    \/ KtKillChild
    \/ KtKillParent
    \/ KtWaitAndForceKill
    \/ KtFallback
    \/ PostKill
    \/ Drain
    \/ Compose
    \/ Except
    \/ Finally

EnvStep ==
    \/ ProcExit
    \/ Spawn
    \/ DescExit
    \/ Emit

NextNt == RunStepNt \/ EnvStep

\* run goes on whenever it is not waiting inside a call; the program under
\* supervision owes nothing.
SpecNt == InitNt /\ [][NextNt]_vars /\ WF_vars(RunStepNt)

\* The locator on every listing, up to the start of the process.
InitLocate == InitFor(DirNames, FileUniverse, MaxFiles, MaxLocateBuilt) /\ os_name = "posix"

NextLocate ==
    \/ ValidateDir
    \/ LocateFirst
    \/ LocateRaises
    \/ BuildIfMissing
    \/ Relocate
    \/ PopenStarts
    \/ PopenRaises
    \/ Except
    \/ Finally

SpecLocate == InitLocate /\ [][NextLocate]_vars

\* ======================================= main.py: GoBuildHandler._build_and_run
\* The handler of one POST request.  HTTPServer.serve_forever handles one
\* request at a time on the only thread of the server.
HFile(name, is_file, x_ok, newer) ==
    [name |-> name, is_file |-> is_file, x_ok |-> x_ok, newer |-> newer]

\* What os.listdir(".") can hold after the build; newer is
\* os.path.getmtime(file_path) > go_mod_time.
HttpFiles ==
    { HFile(N_a, TRUE, TRUE, FALSE), HFile(N_b, TRUE, TRUE, TRUE),
      HFile(N_g, FALSE, TRUE, TRUE), HFile(N_o, TRUE, FALSE, TRUE) }

\* os.path.basename(os.path.normpath(directory_path))
Basename(d) == IF d = ProjectPath THEN N_a ELSE N_o

IsExecutableFile(e) == e.is_file /\ e.x_ok

\* for file in os.listdir("."): ... break
RECURSIVE FirstRecent(_, _)
FirstRecent(l, go_mod) ==
    IF l = << >> THEN None
    ELSE IF IsExecutableFile(Head(l)) /\ (~go_mod \/ Head(l).newer)
         THEN Head(l).name
         ELSE FirstRecent(Tail(l), go_mod)

\* The binary by the directory's name first, else the first recent executable.
FindBinary(l, d, go_mod) ==
    IF \E i \in 1..Len(l) : l[i].name = Basename(d) /\ IsExecutableFile(l[i])
    THEN Basename(d)
    ELSE FirstRecent(l, go_mod)

RunOutput(proc) == IF proc.stderr THEN "stdout\nstderr" ELSE "stdout"

\* os.path.samefile(current_dir, directory_path), current_dir being
\* os.getcwd(); replaced: the path was given to another directory meanwhile.
SameFile(current_dir, path, replaced) == current_dir = path /\ ~replaced

\* os.chdir(original_dir): the working directory it leaves.
ChdirBack_Stays(orig, current) == current
ChdirBack(orig, current) == orig

HEnter ==
    /\ h_pc = "idle"
    /\ original_dir' = cwd
    /\ h_pc' = "chdir"
    /\ UNCHANGED <<cwd, directory_path, h_files, has_go_mod, go_build,
                   binary_proc, binary_name, h_ret, h_result, h_exc>>
    /\ UNCHANGED runVars
    /\ UNCHANGED reqVars

HChdir ==
    /\ h_pc = "chdir"
    /\ \E ok \in BOOLEAN :
        IF ok
        THEN /\ cwd' = directory_path
             /\ h_pc' = "verify"
             /\ UNCHANGED h_exc
        ELSE /\ h_exc' = "OSError"
             /\ h_pc' = "finally"
             /\ UNCHANGED cwd
    /\ UNCHANGED <<directory_path, original_dir, h_files, has_go_mod, go_build,
                   binary_proc, binary_name, h_ret, h_result>>
    /\ UNCHANGED runVars
    /\ UNCHANGED reqVars

HVerify ==
    /\ h_pc = "verify"
    /\ \E replaced \in BOOLEAN :
        IF SameFile(cwd, directory_path, replaced)
        THEN /\ h_pc' = "build"
             /\ UNCHANGED h_ret
        ELSE /\ h_ret' = [set |-> TRUE, buildSuccess |-> FALSE,
                          output |-> "Failed to change to correct directory"]
             /\ h_pc' = "finally"
    /\ UNCHANGED <<cwd, directory_path, original_dir, h_files, has_go_mod,
                   go_build, binary_proc, binary_name, h_result, h_exc>>
    /\ UNCHANGED runVars
    /\ UNCHANGED reqVars

HStartBuild ==
    /\ h_pc = "build"
    /\ \E ok \in BOOLEAN :
        IF ok
        THEN /\ go_build' = [state |-> "running", rc |-> -1]
             /\ ran_in' = [ran_in EXCEPT !.build = cwd]
             /\ h_pc' = "build_wait"
             /\ UNCHANGED h_exc
        ELSE /\ h_exc' = "FileNotFoundError"
             /\ h_pc' = "finally"
             /\ UNCHANGED <<go_build, ran_in>>
    /\ UNCHANGED <<cwd, directory_path, original_dir, h_files, has_go_mod,
                   binary_proc, binary_name, h_ret, h_result>>
    /\ UNCHANGED runVars
    /\ UNCHANGED other

GoBuildExits ==
    /\ go_build.state = "running"
    /\ \E rc \in {0, 1} : go_build' = [state |-> "exited", rc |-> rc]
    /\ UNCHANGED <<cwd, directory_path, original_dir, h_files, has_go_mod,
                   h_pc, binary_proc, binary_name, h_ret, h_result, h_exc>>
    /\ UNCHANGED runVars
    /\ UNCHANGED reqVars

HBuildDone ==
    /\ h_pc = "build_wait"
    /\ go_build.state = "exited"
    /\ IF go_build.rc # 0
       THEN /\ h_ret' = [set |-> TRUE, buildSuccess |-> FALSE,
                         output |-> "build stderr"]
            /\ h_pc' = "finally"
       ELSE /\ h_pc' = "find"
            /\ UNCHANGED h_ret
    /\ UNCHANGED <<cwd, directory_path, original_dir, h_files, has_go_mod,
                   go_build, binary_proc, binary_name, h_result, h_exc>>
    /\ UNCHANGED runVars
    /\ UNCHANGED reqVars

HFindBinary ==
    /\ h_pc = "find"
    /\ binary_name' = FindBinary(h_files, directory_path, has_go_mod)
    /\ IF binary_name' = None
       THEN /\ h_ret' = [set |-> TRUE, buildSuccess |-> TRUE,
                         output |-> "Build successful, but couldn't find the binary to execute."]
            /\ h_pc' = "finally"
       ELSE /\ h_pc' = "run"
            /\ UNCHANGED h_ret
    /\ UNCHANGED <<cwd, directory_path, original_dir, h_files, has_go_mod,
                   go_build, binary_proc, h_result, h_exc>>
    /\ UNCHANGED runVars
    /\ UNCHANGED reqVars

HStartBinary ==
    /\ h_pc = "run"
    /\ \E ok \in BOOLEAN :
        IF ok
        THEN /\ binary_proc' = [state |-> "running", stderr |-> FALSE]
             /\ ran_in' = [ran_in EXCEPT !.run = cwd]
             /\ h_pc' = "run_wait"
             /\ UNCHANGED h_exc
        ELSE /\ h_exc' = "OSError"
             /\ h_pc' = "finally"
             /\ UNCHANGED <<binary_proc, ran_in>>
    /\ UNCHANGED <<cwd, directory_path, original_dir, h_files, has_go_mod,
                   go_build, binary_name, h_ret, h_result>>
    /\ UNCHANGED runVars
    /\ UNCHANGED other

BinaryExits ==
    /\ binary_proc.state = "running"
    /\ \E err \in BOOLEAN : binary_proc' = [state |-> "exited", stderr |-> err]
    /\ UNCHANGED <<cwd, directory_path, original_dir, h_files, has_go_mod,
                   h_pc, go_build, binary_name, h_ret, h_result, h_exc>>
    /\ UNCHANGED runVars
    /\ UNCHANGED reqVars

HBinaryDone ==
    /\ h_pc = "run_wait"
    /\ binary_proc.state = "exited"
    /\ h_ret' = [set |-> TRUE, buildSuccess |-> TRUE,
                 output |-> RunOutput(binary_proc)]
    /\ h_pc' = "finally"
    /\ UNCHANGED <<cwd, directory_path, original_dir, h_files, has_go_mod,
                   go_build, binary_proc, binary_name, h_result, h_exc>>
    /\ UNCHANGED runVars
    /\ UNCHANGED reqVars

HFinally ==
    /\ h_pc = "finally"
    /\ cwd' = ChdirBack(original_dir, cwd)
    /\ h_result' = IF h_exc = "" THEN h_ret ELSE NoResponse
    /\ h_pc' = "done"
    /\ UNCHANGED <<directory_path, original_dir, h_files, has_go_mod, go_build,
                   binary_proc, binary_name, h_ret, h_exc>>
    /\ UNCHANGED runVars
    /\ UNCHANGED reqVars

\* A request arrives while the server runs in either directory; the run tool
\* of server.py is not called.
HttpStart ==
    /\ os_name = "posix"
    /\ RunFor({N_a}, {}, 0, 0)
    /\ dir_exists = FALSE
    /\ timeout_seconds > MAX_RUNTIME
    /\ cwd \in HttpDirs
    /\ directory_path = ProjectPath
    /\ original_dir = ""
    /\ h_files \in ListingsOf(HttpFiles, MaxHttpFiles)
    /\ has_go_mod \in BOOLEAN
    /\ h_pc = "idle"
    /\ go_build = NoProcess
    /\ binary_proc = [state |-> "none", stderr |-> FALSE]
    /\ binary_name = None
    /\ h_ret = NoResponse
    /\ h_result = NoResponse
    /\ h_exc = ""
    /\ ran_in = NotRun

InitHttp == HttpStart /\ other = NoOther

\* The statements of the handler, which the interpreter keeps executing.
HandlerStep ==
    \/ HEnter
    \/ HChdir
    \/ HVerify
    \/ HStartBuild
    \/ HBuildDone
    \/ HFindBinary
    \/ HStartBinary
    \/ HBinaryDone
    \/ HFinally

\* The child processes, which exit when they choose to, if ever.
ChildStep ==
    \/ GoBuildExits
    \/ BinaryExits

NextHttp == HandlerStep \/ ChildStep

SpecHttp == InitHttp /\ [][NextHttp]_vars /\ WF_vars(HandlerStep)

\* ----------------------------------------- main.py: a second request in flight
\* The same _build_and_run, called for OtherPath while the first call is under
\* way (a server that handles requests concurrently).  Its two subprocess.run
\* calls are one step each; what they find on disk is the environment's choice.
OtherAt(p) == other.pc = p

OEnter ==
    /\ OtherAt("idle")
    /\ other' = [other EXCEPT !.pc = "chdir", !.original_dir = cwd]
    /\ UNCHANGED <<cwd, httpLocals, ran_in>>
    /\ UNCHANGED runVars

OChdir ==
    /\ OtherAt("chdir")
    /\ \E ok \in BOOLEAN :
        IF ok
        THEN /\ cwd' = OtherPath
             /\ other' = [other EXCEPT !.pc = "verify"]
        ELSE /\ other' = [other EXCEPT !.pc = "finally", !.result = "raised"]
             /\ UNCHANGED cwd
    /\ UNCHANGED <<httpLocals, ran_in>>
    /\ UNCHANGED runVars

OVerify ==
    /\ OtherAt("verify")
    /\ \E replaced \in BOOLEAN :
        IF SameFile(cwd, OtherPath, replaced)
        THEN other' = [other EXCEPT !.pc = "build"]
        ELSE other' = [other EXCEPT !.pc = "finally", !.result = "mismatch"]
    /\ UNCHANGED <<cwd, httpLocals, ran_in>>
    /\ UNCHANGED runVars

OBuild ==
    /\ OtherAt("build")
    /\ \E outcome \in {"raised", "failed", "built"} :
        other' = IF outcome = "raised"
                 THEN [other EXCEPT !.pc = "finally", !.result = outcome]
                 ELSE IF outcome = "failed"
                 THEN [other EXCEPT !.pc = "finally", !.result = outcome,
                                    !.build_cwd = cwd]
                 ELSE [other EXCEPT !.pc = "run", !.build_cwd = cwd]
    /\ UNCHANGED <<cwd, httpLocals, ran_in>>
    /\ UNCHANGED runVars

ORun ==
    /\ OtherAt("run")
    /\ \E outcome \in {"not found", "raised", "ran"} :
        other' = IF outcome = "ran"
                 THEN [other EXCEPT !.pc = "finally", !.result = outcome,
                                    !.run_cwd = cwd]
                 ELSE [other EXCEPT !.pc = "finally", !.result = outcome]
    /\ UNCHANGED <<cwd, httpLocals, ran_in>>
    /\ UNCHANGED runVars

OFinally ==
    /\ OtherAt("finally")
    /\ cwd' = ChdirBack(other.original_dir, cwd)
    /\ other' = [other EXCEPT !.pc = "done"]
    /\ UNCHANGED <<httpLocals, ran_in>>
    /\ UNCHANGED runVars

OtherStep ==
    \/ OEnter
    \/ OChdir
    \/ OVerify
    \/ OBuild
    \/ ORun
    \/ OFinally

\* Two requests are accepted and their handlers run side by side.
InitShared == HttpStart /\ other = [NoOther EXCEPT !.pc = "idle"]

NextShared == HandlerStep \/ ChildStep \/ OtherStep

SpecShared == InitShared /\ [][NextShared]_vars

\* ================================================================ claims
Done == pc = "done"
Returned == Done /\ result.set
Started == process = "started"
NeverExited == exit_code = -1
Elapsed == clock - start_time

ReachedMaxMsg == Msg("Reached maximum runtime, terminating...", << >>)
AmbiguityMsg(exe) == Msg("Multiple executables found. Using", exe)
BuildLogMsg == Msg("build_output", <<build_output>>)
ErrorMsg(kind) == Msg("Unexpected error during execution", <<kind>>)

\* The longest run spends after the deadline: one pass of the loop, then
\* wait_procs, the sleep after the kill and communicate.
Grace ==
    SELECT_TIMEOUT + TICK_SLEEP + WAIT_PROCS_TIMEOUT + POST_KILL_SLEEP
    + COMMUNICATE_TIMEOUT

C2_SuccessMeansExitZeroOrTimeout ==
    (Returned /\ Started /\ result.success) =>
        \/ loop_exit = "exit" /\ exit_code = 0
        \/ loop_exit = "deadline"

\* C3: after run returns from a run that started a process, neither the
\* supervised process nor any descendant is alive.
C3_NoProcessLeftAlive ==
    (Done /\ Started) => (root # "running" /\ desc = {})

\* C4: a run whose polling loop ended at the deadline, with no exception
\* raised, returns success = true.
C4_TimeoutIsSuccess ==
    (Done /\ loop_exit = "deadline" /\ exc = "") =>
        (result.set /\ result.success)

\* A timed-out run that captured output, whose kills all failed, returned.
C4_Witness ==
    /\ Returned /\ loop_exit = "deadline" /\ exc = ""
    /\ root = "running"
    /\ kill_log # << >>
    /\ captured["stdout"] # << >>
    /\ result.success

\* C5: build is invoked at most once; once run is past the build step it was
\* invoked exactly once if the first locate found no executable and not at
\* all if it found one.
C5_BuildExactlyOnce ==
    /\ build_calls <= 1
    /\ (Len(located) >= 1 /\ pc # "build") =>
          build_calls = (IF located[1] = None THEN 1 ELSE 0)

\* A run that built once, located again, found nothing and gave up.
C5_Witness ==
    /\ Done /\ build_calls = 1
    /\ Len(located) = 2 /\ located[1] = None /\ located[2] = None

\* C6: when the first locate found no executable and none exists after the
\* one build, no process is ever started and run returns success = false.
C6_NoExecutableNoProcess ==
    (Len(located) >= 1 /\ located[1] = None /\ build_calls = 1
       /\ Filter(listing) = << >>) =>
        /\ popen_calls = 0
        /\ process = "None"
        /\ Done => (result.set /\ ~result.success)

\* A build that succeeded without writing an executable; run gave up.
C6_Witness ==
    /\ Returned /\ located = <<None, None>>
    /\ build_output = "Build successful"
    /\ Filter(listing) = << >>
    /\ ~result.success /\ popen_calls = 0

\* C7: whenever run invoked build, the log text build returned is part of
\* the output run returns.
C7_BuildLogInOutput ==
    (Returned /\ build_calls >= 1) => Contains(result.output, BuildLogMsg)

\* C8: with several candidates the first locate selects the candidate whose
\* name is the directory's name if there is one, else the first candidate,
\* and the ambiguity message is in the report exactly in the second case.
C8_PrefersDirectoryName ==
    (Len(located) >= 1 /\ build_calls = 0 /\ Len(executables) > 1) =>
        LET named == \E i \in 1..Len(executables) : executables[i] = project_dir
            chosen == IF named THEN project_dir ELSE executables[1]
        IN  /\ located[1] = chosen
            /\ Contains(output_lines, AmbiguityMsg(located[1])) <=> ~named

\* C9: when Popen raises, run returns success = false with the error text in
\* its output, no exception leaves run, and no kill is attempted.
C9_SpawnFailureReported ==
    (popen_calls >= 1 /\ process = "None") =>
        /\ kill_log = << >>
        /\ Done => /\ result.set
                   /\ ~result.success
                   /\ Contains(result.output, ErrorMsg("OSError"))

\* Popen raised and run returned.
C9_Witness ==
    /\ Returned /\ popen_calls = 1 /\ process = "None" /\ exc = "OSError"

\* C10: kill_process_tree never raises into run: whatever kills fail, it
\* returns normally.
C10_KillTreeNeverRaises ==
    /\ kt_status # "raised"
    /\ pc \in {"post_kill", "drain", "compose"} =>
          kt_status \in {"idle", "returned"}

\* kill_process_tree returned although the tree could not be enumerated and
\* the fallback kill failed; the process is still running.
C10_Witness ==
    /\ pc = "post_kill" /\ kt_status = "returned"
    /\ root = "running"
    /\ Contains(output_lines, Msg("Error killing process tree", << >>))

RECURSIVE IsSubSeq(_, _)
IsSubSeq(a, b) ==
    IF a = << >> THEN TRUE
    ELSE IF b = << >> THEN FALSE
    ELSE IF Head(a) = Head(b) THEN IsSubSeq(Tail(a), Tail(b))
    ELSE IsSubSeq(a, Tail(b))

\* C12: at every point of a run and for each stream, the lines captured from
\* the stream (by the loop, then by the final drain) are lines the program
\* wrote to that stream, in the order it wrote them, none twice and none out
\* of place; nothing is said about the order across the two streams.
C12_StreamOrderKept ==
    \A s \in Streams : IsSubSeq(captured[s], emitted_to[s])

\* A run that returned two stdout lines, the second collected by the final
\* drain after the program exited.
C12_Witness ==
    /\ Returned /\ loop_exit = "exit" /\ ~pipes_open
    /\ emitted_to["stdout"] = <<1, 2>>
    /\ captured["stdout"] = <<1, 2>>
    /\ Contains(result.output, Msg("line", <<"2">>))

\* C13: every run that starts a process returns in the end, whatever the
\* program does (never exits, writes nothing, writes a text without a
\* newline, leaves descendants that hold the pipes).
C13_RunReturns == Started ~> Done

ExitedMsg == Msg("Process exited with code", <<ToString(exit_code)>>)
NaturalExit == root = "exited"

\* C14: the loop reports the event that came first: a run whose process
\* exited by itself while the elapsed time was still below the deadline is
\* recorded as a natural exit with its exit code and never as a timeout,
\* also when the loop looks at the process only after the deadline.
C14_FirstEventReported ==
    (Done /\ Started /\ exc = "" /\ NaturalExit /\ at_exit.in_time) =>
        /\ loop_exit = "exit"
        /\ Contains(result.output, ExitedMsg)
        /\ ~Contains(result.output, ReachedMaxMsg)

TerminatedMsg == Msg("Process ran and was terminated after 5 seconds as planned", << >>)

\* C15: the returned report says the process was terminated at the deadline
\* only if the polling loop ended because the deadline was exceeded; a run
\* whose process exited by itself says no such thing, whatever its exit code.
C15_TerminatedOnlyAfterDeadline ==
    (Returned /\ Contains(result.output, TerminatedMsg)) =>
        loop_exit = "deadline"

\* C16: when run returns from a run that started a process, both pipe
\* handles are closed and the exit status of the process was collected, on
\* every path: natural exit, timeout, a final drain that times out, an
\* exception caught by the outer handler.
C16_HandleReleased ==
    (Done /\ Started) => (~pipes_open /\ reaped)

\* C17: the second locate, after a successful build, applies the selection
\* policy of the first: for every list of candidates it selects the candidate
\* the first locate would select, and reports an ambiguity as the first does.
C17_SecondLocateSamePolicy ==
    Len(located) = 2 =>
        LET sel == SelectFirst(executables, project_dir)
        IN  /\ located[2] = sel.executable
            /\ sel.ambiguous => Contains(output_lines, AmbiguityMsg(sel.executable))

\* The place of the first x in q, and how often x is in q.
FirstIndex(q, x) == CHOOSE i \in 1..Len(q) : q[i] = x /\ \A j \in 1..(i - 1) : q[j] # x
Count(q, x) == Cardinality({i \in 1..Len(q) : q[i] = x})

\* The enumerated processes and the root that are alive.
AliveOfTree == (Range(children) \cap desc) \cup (IF root = "running" THEN {Root} ELSE {})

\* C18: on every path through kill_process_tree, the fallback included, a
\* kill is sent to every enumerated descendant before the first kill sent to
\* the root; and when kill_process_tree is over, every process of the tree
\* that is still alive was sent a kill a second time, after the wait.
C18_DescendantsFirstThenAgain ==
    /\ Root \in Range(kill_log) =>
          \A c \in Range(children) :
              /\ c \in Range(kill_log)
              /\ FirstIndex(kill_log, c) < FirstIndex(kill_log, Root)
    /\ pc = "post_kill" => \A p \in AliveOfTree : Count(kill_log, p) >= 2

\* C19: a run whose process exited by itself has, when it returns, every
\* line the process wrote before it exited among the captured lines of the
\* stream it was written to: the final drain collects what the loop had not
\* read, also when the program wrote more lines than the loop read and when
\* a descendant still holds the pipe open.
C19_DrainCollectsAll ==
    (Done /\ Started /\ exc = "" /\ loop_exit = "exit") =>
        \A s \in Streams : \A i \in 1..Len(emitted_to[s]) :
            emitted_to[s][i] <= root_wrote =>
                \E j \in 1..Len(captured[s]) : captured[s][j] = emitted_to[s][i]

\* C20: the HTTP handler never blocks indefinitely: once it waits for the
\* built binary it returns a response after a bounded time, even when the
\* binary never exits.
C20_HandlerReturns == (h_pc = "run_wait") ~> (h_pc = "done")

====
